---- MODULE Spec2Model ----
(***************************************************************************)
(* The reactivity core of packages/reactivity: the dependency graph        *)
(* (dep.ts, effect.ts) and the proxy traps (baseHandlers.ts).              *)
(*                                                                         *)
(* JavaScript is single threaded: a trap that fires trigger re-enters the  *)
(* effects' computations before it returns.  The model keeps the call      *)
(* stack explicitly (stack) and takes one step per call made by user code  *)
(* (the top level or an effect's computation) and one per return.  An      *)
(* effect's computation is any sequence of at most MaxBody calls followed  *)
(* by a return or a throw.                                                 *)
(***************************************************************************)
EXTENDS Integers, Sequences, FiniteSets, TLC

\* ---------------------------------------------------------------- bounds
\* calls one execution of a computation makes
MaxBody == 2
\* calls user code makes in all, from the top level and from computations
MaxCalls == 7
\* the same where no effect is stopped
MaxOrdCalls == 6
MaxDispCalls == 4
MaxTabCalls == 4
MaxTrkCalls == 5
MaxDeepCalls == 5
MaxNest == 2
\* the same where the calls are the array's
MaxArrCalls == 4
\* the same where the values written are NaN and the zeros
MaxValCalls == 5
\* the same where the calls go through the read-only wrapper
MaxROCalls == 4
\* largest array length
MaxLen == 2
MaxTrapCalls == 4
MaxEnumCalls == 5

\* ------------------------------------------------------------- universe
Effects == {"E1", "E2"}
\* undefined
None == "none"
\* the raw value of a key that is not an own property
Absent == "absent"
undefined == "undefined"

ObjKeys == {"a", "b"}
ITERATE_KEY == "Symbol(iterate)"
MAP_KEY_ITERATE_KEY == "Symbol(Map key iterate)"
\* the index keys as the strings the traps receive
IdxKeys == <<"0", "1", "2", "3", "4", "5", "6", "7">>
IndexKey(i) == IdxKeys[i + 1]
ArrIdx == 0 .. (MaxLen - 1)
\* a symbol of the user's, not one of the built-in well-known symbols
USER_SYMBOL == "Symbol(user)"
ArrKeys == {IndexKey(i) : i \in 0 .. MaxLen} \cup {"length", "constructor", USER_SYMBOL}

\* the keys of the Map target, and the two sentinels its iterations track
MapKeys == {"a", ITERATE_KEY, MAP_KEY_ITERATE_KEY}

\* a plain object, an array and a Map
Targets == {"obj", "arr", "map"}
KeysOf(t) ==
    IF t = "arr" THEN ArrKeys
    ELSE IF t = "map" THEN MapKeys
    ELSE ObjKeys \cup {ITERATE_KEY}
Slots == {<<t, k>> : t \in Targets, k \in ArrKeys \cup MapKeys \cup ObjKeys}
             \ {s \in Targets \X (ArrKeys \cup MapKeys \cup ObjKeys) : s[2] \notin KeysOf(s[1])}

\* ------------------------------------------------------------ @vue/shared
isArray(t) == t = "arr"
isMap(t) == t = "map"
isSymbol(key) == key \in {ITERATE_KEY, MAP_KEY_ITERATE_KEY, USER_SYMBOL}

\* parseInt(key, 10) of a key that isIntegerKey accepts
Number(key) == CHOOSE i \in 0 .. (Len(IdxKeys) - 1) : IdxKeys[i + 1] = key

isIntegerKey(key) == \E i \in 1 .. Len(IdxKeys) : IdxKeys[i] = key

\* the === comparison: NaN differs from itself, +0 equals -0
StrictEquals(x, y) ==
    IF x = "NaN" \/ y = "NaN" THEN FALSE
    ELSE IF x \in {"+0", "-0"} /\ y \in {"+0", "-0"} THEN TRUE
    ELSE x = y

\* Object.is: SameValue on the value tags
ObjectIs(x, y) == x = y

\* the comparison value !== oldValue in place of Object.is
hasChanged_strict(value, oldValue) == ~StrictEquals(value, oldValue)

hasChanged(value, oldValue) == ~ObjectIs(value, oldValue)

\* ---------------------------------------------------------------- state
VARIABLES
    obj,              \* the raw object: key -> value or Absent
    arr,              \* the raw array: [length, el: index -> value or Absent]
    targetMap,        \* target -> its depsMap's keys, in insertion order
    dep,              \* slot -> the Dep of the slot: [set, w, n]
    effect,           \* effect -> the ReactiveEffect's fields
    activeEffect,
    shouldTrack,
    trackStack,
    effectTrackDepth,
    trackOpBit,
    stack,            \* the call stack, innermost frame last
    exc,              \* an exception is propagating
    fuel,             \* calls user code can still make
    readSet,          \* history: effect -> slots tracked for it since its last run began
    prevRead,         \* history: effect -> slots tracked for it in the run before that
    lastOp,           \* history: the last trap call
    lastTrig          \* history: the last trigger call that returned

vars == <<obj, arr, targetMap, dep, effect, activeEffect, shouldTrack, trackStack,
          effectTrackDepth, trackOpBit, stack, exc, fuel, readSet, prevRead, lastOp,
          lastTrig>>

\* the engine's state as one value, so that a handler is a composition of functions
Cur == [targetMap |-> targetMap, dep |-> dep, effect |-> effect,
        activeEffect |-> activeEffect, shouldTrack |-> shouldTrack,
        trackStack |-> trackStack, effectTrackDepth |-> effectTrackDepth,
        trackOpBit |-> trackOpBit]

Apply(st) ==
    /\ targetMap' = st.targetMap
    /\ dep' = st.dep
    /\ effect' = st.effect
    /\ activeEffect' = st.activeEffect
    /\ shouldTrack' = st.shouldTrack
    /\ trackStack' = st.trackStack
    /\ effectTrackDepth' = st.effectTrackDepth
    /\ trackOpBit' = st.trackOpBit

\* ------------------------------------------------------------------ dep.ts
maxMarkerBits == 30

\* 1 << d on 32-bit integers
Shl1(d) == IF d % 32 = 31 THEN -(2 ^ 30) - (2 ^ 30) ELSE 2 ^ (d % 32)

\* x & bit, x | bit, x & ~bit for a single-bit mask
BitAnd(x, bit) == IF bit > 0 /\ (x \div bit) % 2 = 1 THEN bit ELSE 0
BitOr(x, bit) == IF BitAnd(x, bit) > 0 THEN x ELSE x + bit
BitClear(x, bit) == IF BitAnd(x, bit) > 0 THEN x - bit ELSE x

createDep == [set |-> <<>>, w |-> 0, n |-> 0]

wasTracked(d, bit) == BitAnd(d.w, bit) > 0

newTracked(d, bit) == BitAnd(d.n, bit) > 0

Range(s) == {s[i] : i \in 1 .. Len(s)}

\* Set.prototype.add and delete on a Set kept in insertion order
SetAdd(s, e) == IF e \in Range(s) THEN s ELSE Append(s, e)
SetDelete(s, e) == SelectSeq(s, LAMBDA x : x # e)

RECURSIVE initLoop(_, _, _, _)
initLoop(deps, i, dm, bit) ==
    IF i > Len(deps) THEN dm
    ELSE initLoop(deps, i + 1, [dm EXCEPT ![deps[i]].w = BitOr(@, bit)], bit)

initDepMarkers(st, e) ==
    [st EXCEPT !.dep = initLoop(st.effect[e].deps, 1, st.dep, st.trackOpBit)]

RECURSIVE finalizeLoop(_, _, _, _, _, _)
finalizeLoop(deps, i, dm, kept, e, bit) ==
    IF i > Len(deps) THEN [dep |-> dm, deps |-> kept]
    ELSE LET s == deps[i]
             stale == wasTracked(dm[s], bit) /\ ~newTracked(dm[s], bit)
             d1 == IF stale THEN [dm[s] EXCEPT !.set = SetDelete(@, e)] ELSE dm[s]
             d2 == [d1 EXCEPT !.w = BitClear(@, bit), !.n = BitClear(@, bit)]
         IN finalizeLoop(deps, i + 1, [dm EXCEPT ![s] = d2],
                         IF stale THEN kept ELSE Append(kept, s), e, bit)

finalizeDepMarkers(st, e) ==
    LET r == finalizeLoop(st.effect[e].deps, 1, st.dep, <<>>, e, st.trackOpBit)
    IN [st EXCEPT !.dep = r.dep, !.effect[e].deps = r.deps]

\* --------------------------------------------------------------- effect.ts
NewEffect(computed, scheduler, allowRecurse) ==
    [active |-> TRUE, deps |-> <<>>, parent |-> None, deferStop |-> FALSE,
     computed |-> computed, scheduler |-> scheduler, allowRecurse |-> allowRecurse]

RECURSIVE cleanupLoop(_, _, _, _)
cleanupLoop(deps, i, dm, e) ==
    IF i > Len(deps) THEN dm
    ELSE cleanupLoop(deps, i + 1, [dm EXCEPT ![deps[i]].set = SetDelete(@, e)], e)

\* a cleanup that deletes the effect from its deps and keeps its own list
cleanupEffect_keeplist(st, e) ==
    [st EXCEPT !.dep = cleanupLoop(st.effect[e].deps, 1, st.dep, e)]

cleanupEffect(st, e) ==
    [st EXCEPT !.dep = cleanupLoop(st.effect[e].deps, 1, st.dep, e),
               !.effect[e].deps = <<>>]

\* ReactiveEffect.stop
stop(st, e) ==
    IF st.activeEffect = e THEN [st EXCEPT !.effect[e].deferStop = TRUE]
    ELSE IF st.effect[e].active
         THEN [cleanupEffect(st, e) EXCEPT !.effect[e].active = FALSE]
         ELSE st

\* the while loop of run: e is p or one of p's ancestors
RECURSIVE InParentChain(_, _, _)
InParentChain(eff, p, e) ==
    IF p = None THEN FALSE
    ELSE IF p = e THEN TRUE
    ELSE InParentChain(eff, eff[p].parent, e)

\* a run without the walk up the parent chain
runMode_noguard(st, e) ==
    IF ~st.effect[e].active THEN "inactive" ELSE "tracked"

\* how a call of run proceeds: the computation alone (inactive), nothing (the
\* effect is already running), or the tracked execution of the computation
runMode(st, e) ==
    IF ~st.effect[e].active THEN "inactive"
    ELSE IF InParentChain(st.effect, st.activeEffect, e) THEN "guard"
    ELSE "tracked"

\* the try block of run up to the call of fn
runEnter(st, e) ==
    LET s1 == [st EXCEPT !.effect[e].parent = st.activeEffect,
                         !.activeEffect = e,
                         !.shouldTrack = TRUE,
                         !.effectTrackDepth = @ + 1,
                         !.trackOpBit = Shl1(st.effectTrackDepth + 1)]
    IN IF s1.effectTrackDepth <= maxMarkerBits
       THEN initDepMarkers(s1, e)
       ELSE cleanupEffect(s1, e)

\* the finally block of run
runFinally(st, e, lastShouldTrack) ==
    LET s1 == IF st.effectTrackDepth <= maxMarkerBits
              THEN finalizeDepMarkers(st, e) ELSE st
        s2 == [s1 EXCEPT !.effectTrackDepth = @ - 1,
                         !.trackOpBit = Shl1(s1.effectTrackDepth - 1),
                         !.activeEffect = s1.effect[e].parent,
                         !.shouldTrack = lastShouldTrack,
                         !.effect[e].parent = None]
    IN IF s2.effect[e].deferStop THEN stop(s2, e) ELSE s2

\* a method that would not pause tracking
pauseTracking_none(st) == st

pauseTracking(st) ==
    [st EXCEPT !.trackStack = Append(@, st.shouldTrack), !.shouldTrack = FALSE]

enableTracking(st) ==
    [st EXCEPT !.trackStack = Append(@, st.shouldTrack), !.shouldTrack = TRUE]

\* a resetTracking that turns tracking on whatever was saved
resetTracking_on(st) ==
    [st EXCEPT !.shouldTrack = TRUE,
               !.trackStack = IF @ = <<>> THEN @ ELSE SubSeq(@, 1, Len(@) - 1)]

resetTracking(st) ==
    IF st.trackStack = <<>> THEN [st EXCEPT !.shouldTrack = TRUE]
    ELSE [st EXCEPT !.shouldTrack = st.trackStack[Len(st.trackStack)],
                    !.trackStack = SubSeq(@, 1, Len(@) - 1)]

trackEffects(st, s) ==
    LET e == st.activeEffect
        d == st.dep[s]
        bits == st.effectTrackDepth <= maxMarkerBits
        d1 == IF bits /\ ~newTracked(d, st.trackOpBit)
              THEN [d EXCEPT !.n = BitOr(@, st.trackOpBit)] ELSE d
        should == IF bits
                  THEN ~newTracked(d, st.trackOpBit) /\ ~wasTracked(d, st.trackOpBit)
                  ELSE e \notin Range(d.set)
    IN IF should
       THEN [st EXCEPT !.dep[s] = [d1 EXCEPT !.set = SetAdd(@, e)],
                       !.effect[e].deps = Append(@, s)]
       ELSE [st EXCEPT !.dep[s] = d1]

\* a track that does not look at shouldTrack
track_unpaused(st, s) ==
    IF st.activeEffect # None
    THEN trackEffects(IF s[2] \in Range(st.targetMap[s[1]]) THEN st
                      ELSE [st EXCEPT !.targetMap[s[1]] = Append(@, s[2]),
                                      !.dep[s] = createDep], s)
    ELSE st

\* track(target, type, key); the slot s is <<target, key>>
track(st, s) ==
    IF st.shouldTrack /\ st.activeEffect # None
    THEN LET s1 == IF s[2] \in Range(st.targetMap[s[1]]) THEN st
                   ELSE [st EXCEPT !.targetMap[s[1]] = Append(@, s[2]),
                                   !.dep[s] = createDep]
         IN trackEffects(s1, s)
    ELSE st

\* the track call is one that records a read for the running effect
Tracks(st) == st.shouldTrack /\ st.activeEffect # None

\* depsMap.get(key): the slot if it has a Dep
depsMapGet(st, t, key) ==
    IF key \in Range(st.targetMap[t]) THEN <<<<t, key>>>> ELSE <<>>

\* key >= newLength on a depsMap key that is no symbol: a string that is no number
\* compares false
KeyGE(key, newLength) == isIntegerKey(key) /\ Number(key) >= newLength

\* key === 'length' || key >= newLength throws a TypeError on a symbol key, which
\* cannot be converted to a number: the forEach of the length case ends there
triggerThrows(st, t, type, key) ==
    /\ type # "clear"
    /\ key = "length"
    /\ isArray(t)
    /\ \E k \in Range(st.targetMap[t]) : isSymbol(k)

\* the selection without the ADD, DELETE and length cases: the key's own dep
triggerDeps_keyonly(st, t, type, key, newValue) ==
    IF key # None THEN depsMapGet(st, t, key) ELSE <<>>

\* the deps trigger selects, as slots, undefined entries left out
triggerDeps(st, t, type, key, newValue) ==
    LET km == st.targetMap[t]
    IN IF type = "clear"
       THEN [i \in 1 .. Len(km) |-> <<t, km[i]>>]
       ELSE IF key = "length" /\ isArray(t)
       THEN LET newLength == Number(newValue)
                sel == SelectSeq(km, LAMBDA k : k = "length" \/ KeyGE(k, newLength))
            IN [i \in 1 .. Len(sel) |-> <<t, sel[i]>>]
       ELSE (IF key # None THEN depsMapGet(st, t, key) ELSE <<>>)
            \o (CASE type = "add" ->
                       IF ~isArray(t)
                       THEN depsMapGet(st, t, ITERATE_KEY)
                            \o (IF isMap(t) THEN depsMapGet(st, t, MAP_KEY_ITERATE_KEY)
                                ELSE <<>>)
                       ELSE IF isIntegerKey(key) THEN depsMapGet(st, t, "length")
                       ELSE <<>>
                  [] type = "delete" ->
                       IF ~isArray(t)
                       THEN depsMapGet(st, t, ITERATE_KEY)
                            \o (IF isMap(t) THEN depsMapGet(st, t, MAP_KEY_ITERATE_KEY)
                                ELSE <<>>)
                       ELSE <<>>
                  [] type = "set" ->
                       IF isMap(t) THEN depsMapGet(st, t, ITERATE_KEY) ELSE <<>>
                  [] OTHER -> <<>>)

\* effects.push(...dep) for every selected dep, then createDep(effects): a Set
RECURSIVE concatDeps(_, _, _, _)
concatDeps(st, ds, i, acc) ==
    IF i > Len(ds) THEN acc
    ELSE LET m == st.dep[ds[i]].set
             RECURSIVE addAll(_, _)
             addAll(j, a) == IF j > Len(m) THEN a ELSE addAll(j + 1, SetAdd(a, m[j]))
         IN concatDeps(st, ds, i + 1, addAll(1, acc))

\* one loop over the effects in the order of the Set
triggerOrder_unordered(st, effs) == effs

\* the two loops of triggerEffects: the computed effects first, then the others
triggerOrder(st, effs) ==
    SelectSeq(effs, LAMBDA e : st.effect[e].computed)
    \o SelectSeq(effs, LAMBDA e : ~st.effect[e].computed)

\* the effects a trigger call notifies, in the order it notifies them
triggerList(st, t, type, key, newValue) ==
    triggerOrder(st, concatDeps(st, triggerDeps(st, t, type, key, newValue), 1, <<>>))

\* ------------------------------------------------------------ the raw data
hasOwn(o, a, t, key) ==
    IF isArray(t)
    THEN key = "length" \/ (isIntegerKey(key) /\ Number(key) < a.length
                            /\ a.el[Number(key)] # Absent)
    ELSE key \in DOMAIN o /\ o[key] # Absent

\* target[key] on the raw target
rawGet(o, a, t, key) ==
    IF isArray(t)
    THEN IF key = "length" THEN IndexKey(a.length)
         ELSE IF key = "constructor" THEN "Array"
         ELSE IF isIntegerKey(key) /\ Number(key) < a.length /\ a.el[Number(key)] # Absent
              THEN a.el[Number(key)] ELSE undefined
    ELSE IF key \in DOMAIN o /\ o[key] # Absent THEN o[key] ELSE undefined

\* Reflect.set on the raw array: an index at or past length extends the array,
\* a smaller length deletes the elements past it
arraySet(a, key, value) ==
    IF key = "length"
    THEN [length |-> Number(value),
          el |-> [i \in DOMAIN a.el |-> IF i < Number(value) THEN a.el[i] ELSE Absent]]
    ELSE [length |-> IF Number(key) < a.length THEN a.length ELSE Number(key) + 1,
          el |-> [a.el EXCEPT ![Number(key)] = value]]

\* Reflect.deleteProperty on the raw array: length is not configurable
arrayDelete(a, key) ==
    IF key = "length" THEN a ELSE [a EXCEPT !.el[Number(key)] = Absent]

\* --------------------------------------------------------- the call stack
NoInfo == [slot |-> <<None, None>>, type |-> None, via |-> None, newValue |-> None,
           subs0 |-> {}, drop0 |-> {}, idle0 |-> {}, deps0 |-> <<>>]

\* the registers when the module is loaded
InitRegs == [activeEffect |-> None, shouldTrack |-> TRUE, effectTrackDepth |-> 0,
             trackOpBit |-> 1]

\* the registers as a caller finds them
Regs(st) == [activeEffect |-> st.activeEffect, shouldTrack |-> st.shouldTrack,
             effectTrackDepth |-> st.effectTrackDepth, trackOpBit |-> st.trackOpBit]

\* an execution of fn by run: pre is what the registers were when run was called
RunFrame(e, lastShouldTrack, tracked, pre) ==
    [kind |-> "run", eff |-> e, lst |-> lastShouldTrack, tracked |-> tracked, n |-> 0,
     pre |-> pre,
     effects |-> <<>>, i |-> 0, ran |-> <<>>, info |-> NoInfo, name |-> None, pc |-> 0,
     len |-> 0, k |-> 0, val |-> None, tmp |-> None]

TrigFrame(effects, info) ==
    [kind |-> "trigger", eff |-> None, lst |-> FALSE, tracked |-> FALSE, n |-> 0,
     pre |-> Regs(InitRegs),
     effects |-> effects, i |-> 1, ran |-> <<>>, info |-> info, name |-> None, pc |-> 0,
     len |-> 0, k |-> 0, val |-> None, tmp |-> None]

\* a length-altering array method in progress: its name, its argument and its locals
MethodFrame(name, value) ==
    [kind |-> "method", eff |-> None, lst |-> FALSE, tracked |-> FALSE, n |-> 0,
     pre |-> Regs(InitRegs),
     effects |-> <<>>, i |-> 0, ran |-> <<>>, info |-> NoInfo, name |-> name, pc |-> 0,
     len |-> 0, k |-> 0, val |-> value, tmp |-> None]

Top == stack[Len(stack)]
Pop(stk) == SubSeq(stk, 1, Len(stk) - 1)

\* the effects whose computation is executing
Running(stk) == {stk[i].eff : i \in {j \in 1 .. Len(stk) : stk[j].kind = "run"}}

\* user code can make a call: the top level, or the computation that is executing
CanCall ==
    /\ ~exc
    /\ fuel > 0
    /\ stack # <<>> => Top.kind = "run" /\ Top.n < MaxBody

\* the stack once the caller has made one more call
Charge(stk) ==
    IF stk = <<>> THEN stk ELSE [stk EXCEPT ![Len(stk)].n = @ + 1]

Count == fuel' = fuel - 1

\* a call of effect.run(): the state and stack when control reaches fn, or when
\* run has returned without calling it
callRun(st, stk, e) ==
    LET mode == runMode(st, e)
    IN IF mode = "inactive"
       THEN [st |-> st,
             stack |-> Append(stk, RunFrame(e, st.shouldTrack, FALSE, Regs(st))),
             mode |-> mode]
       ELSE IF mode = "guard" THEN [st |-> st, stack |-> stk, mode |-> mode]
       ELSE [st |-> runEnter(st, e),
             stack |-> Append(stk, RunFrame(e, st.shouldTrack, TRUE, Regs(st))),
             mode |-> mode]

NoTrig == [info |-> NoInfo, effects |-> <<>>, ran |-> <<>>, aborted |-> FALSE,
           stopped |-> {}]

\* what the caller of trigger knows of the call, for the history
TrigInfo(st, stk, t, type, key, newValue, via) ==
    [slot |-> <<t, key>>, type |-> type, via |-> via, newValue |-> newValue,
     subs0 |-> {e \in Effects : <<t, key>> \in readSet[e]},
     drop0 |-> {e \in Effects : <<t, key>> \in prevRead[e] \ readSet[e]},
     idle0 |-> Effects \ Running(stk),
     deps0 |-> [k \in Range(st.targetMap[t]) |-> Range(st.dep[<<t, k>>].set)]]

\* a call of trigger: the stack with the frame of its triggerEffects loop, or the
\* exception it throws while it selects the deps
callTrigger(st, stk, t, type, key, newValue, via) ==
    LET info == TrigInfo(st, stk, t, type, key, newValue, via)
    IN IF triggerThrows(st, t, type, key)
       THEN [stack |-> stk, exc |-> TRUE,
             last |-> [NoTrig EXCEPT !.info = info, !.aborted = TRUE]]
       ELSE [stack |-> Append(stk, TrigFrame(triggerList(st, t, type, key, newValue),
                                             info)),
             exc |-> FALSE, last |-> lastTrig]

NoOp == [op |-> None, slot |-> <<None, None>>, eff |-> None, value |-> None,
         oldValue |-> None, hadKey |-> FALSE, trig |-> None, result |-> FALSE,
         tracked |-> FALSE, self |-> FALSE, clean |-> FALSE, quiet |-> FALSE,
         len |-> 0, base |-> 0, at |-> 0]

\* the history of a run that begins: its reads become those of the run before
BeginRun(mode, e) ==
    IF mode = "tracked"
    THEN /\ readSet' = [readSet EXCEPT ![e] = {}]
         /\ prevRead' = [prevRead EXCEPT ![e] = readSet[e]]
    ELSE UNCHANGED <<readSet, prevRead>>

\* e is in no Dep and its own list is empty
Unsubscribed(st, e) ==
    /\ \A s \in Slots : e \notin Range(st.dep[s].set)
    /\ st.effect[e].deps = <<>>

\* ------------------------------------------------------------------ actions
\* runner(): effect.run() called by user code
DoRun(e) ==
    /\ CanCall
    /\ LET r == callRun(Cur, Charge(stack), e)
       IN /\ Apply(r.st)
          /\ stack' = r.stack
          /\ BeginRun(r.mode, e)
          /\ lastOp' = [NoOp EXCEPT !.op = "run", !.eff = e, !.trig = r.mode,
                                    !.quiet = (r.st = Cur),
                                    !.base = Len(stack), !.at = fuel - 1]
    /\ Count
    /\ UNCHANGED <<obj, arr, exc, lastTrig>>

\* stop(runner)
DoStop(e) ==
    /\ CanCall
    /\ Apply(stop(Cur, e))
    /\ stack' = Charge(stack)
    /\ lastOp' = [NoOp EXCEPT !.op = "stop", !.eff = e, !.self = (activeEffect = e),
                              !.clean = Unsubscribed(stop(Cur, e), e),
                              !.quiet = (stop(Cur, e).dep = dep),
                              !.base = Len(stack), !.at = fuel - 1]
    /\ Count
    /\ UNCHANGED <<obj, arr, exc, readSet, prevRead, lastTrig>>

\* a getter that would track whatever isReadonly is
createGetter_tracking(st, isReadonly, t, key) == track(st, <<t, key>>)

\* createGetter(isReadonly, shallow) on a data key: the engine's state after the read
createGetter(st, isReadonly, t, key) ==
    IF ~isReadonly THEN track(st, <<t, key>>) ELSE st

\* a read of target[key] through the mutable wrapper
DoGet(t, key) ==
    /\ CanCall
    /\ Apply(createGetter(Cur, FALSE, t, key))
    /\ readSet' = IF Tracks(Cur) THEN [readSet EXCEPT ![activeEffect] = @ \cup {<<t, key>>}]
                  ELSE readSet
    /\ lastOp' = [NoOp EXCEPT !.op = "get", !.slot = <<t, key>>, !.eff = activeEffect,
                              !.value = rawGet(obj, arr, t, key), !.tracked = Tracks(Cur),
                              !.base = Len(stack), !.at = fuel - 1]
    /\ stack' = Charge(stack)
    /\ Count
    /\ UNCHANGED <<obj, arr, exc, prevRead, lastTrig>>

\* a setter that asks hasOwn for every key, the indices of an array too
setTrigger_hasOwn(o, a, t, key, value) ==
    IF ~hasOwn(o, a, t, key) THEN "add"
    ELSE IF hasChanged(value, rawGet(o, a, t, key)) THEN "set"
    ELSE None

\* createSetter(shallow = false) with the wrapper as receiver: which trigger the
\* trap fires after the write
setTrigger(o, a, t, key, value) ==
    LET oldValue == rawGet(o, a, t, key)
        hadKey == IF isArray(t) /\ isIntegerKey(key) THEN Number(key) < a.length
                  ELSE hasOwn(o, a, t, key)
    IN IF ~hadKey THEN "add"
       ELSE IF hasChanged(value, oldValue) THEN "set"
       ELSE None

\* target[key] = value through the mutable wrapper
DoSet(t, key, value) ==
    /\ CanCall
    /\ LET type == setTrigger(obj, arr, t, key, value)
           r == callTrigger(Cur, Charge(stack), t, type, key, value, "set")
       IN /\ IF isArray(t) THEN arr' = arraySet(arr, key, value) /\ obj' = obj
             ELSE obj' = [obj EXCEPT ![key] = value] /\ arr' = arr
          /\ IF type = None
             THEN stack' = Charge(stack) /\ UNCHANGED <<exc, lastTrig>>
             ELSE stack' = r.stack /\ exc' = r.exc /\ lastTrig' = r.last
          /\ lastOp' = [NoOp EXCEPT !.op = "set", !.slot = <<t, key>>, !.value = value,
                                    !.oldValue = rawGet(obj, arr, t, key),
                                    !.hadKey = (IF isArray(t) /\ isIntegerKey(key)
                                                THEN Number(key) < arr.length
                                                ELSE hasOwn(obj, arr, t, key)),
                                    !.trig = type, !.result = TRUE,
                                    !.base = Len(stack), !.at = fuel - 1]
    /\ Count
    /\ UNCHANGED <<targetMap, dep, effect, activeEffect, shouldTrack, trackStack,
                   effectTrackDepth, trackOpBit, readSet, prevRead>>

\* track(target, type, key) called as the handlers of a collection call it
DoTrack(t, key) ==
    /\ CanCall
    /\ Apply(track(Cur, <<t, key>>))
    /\ readSet' = IF Tracks(Cur) THEN [readSet EXCEPT ![activeEffect] = @ \cup {<<t, key>>}]
                  ELSE readSet
    /\ lastOp' = [NoOp EXCEPT !.op = "track", !.slot = <<t, key>>, !.eff = activeEffect,
                              !.tracked = Tracks(Cur),
                              !.base = Len(stack), !.at = fuel - 1]
    /\ stack' = Charge(stack)
    /\ Count
    /\ UNCHANGED <<obj, arr, exc, prevRead, lastTrig>>

\* trigger(target, type, key, newValue) called as the handlers call it
DoTrigger(t, type, key, newValue) ==
    /\ CanCall
    /\ LET r == callTrigger(Cur, Charge(stack), t, type, key, newValue, "trigger")
       IN /\ stack' = r.stack
          /\ exc' = r.exc
          /\ lastTrig' = r.last
    /\ lastOp' = [NoOp EXCEPT !.op = "trigger", !.slot = <<t, key>>, !.value = newValue,
                              !.trig = type, !.base = Len(stack), !.at = fuel - 1]
    /\ Count
    /\ UNCHANGED <<obj, arr, targetMap, dep, effect, activeEffect, shouldTrack,
                   trackStack, effectTrackDepth, trackOpBit, readSet, prevRead>>

\* the effects whose computation does nothing but call the runner of the next
\* one; the computation of the last one is the user's
Filler(i) == "F" \o ToString(i)
Fillers == {Filler(i) : i \in 1 .. maxMarkerBits}

\* the runners of the fillers from the i-th on called one inside the other: the
\* state and the stack when control reaches the computation of the last one
RECURSIVE Nest(_, _, _)
Nest(st, stk, i) ==
    IF i > maxMarkerBits THEN [st |-> st, stack |-> stk]
    ELSE LET r == callRun(st, stk, Filler(i))
             f == [r.stack[Len(r.stack)] EXCEPT !.n = IF i < maxMarkerBits THEN MaxBody
                                                      ELSE 0]
         IN IF r.st.activeEffect = Filler(i) /\ f.eff = Filler(i)
            THEN Nest(r.st, [r.stack EXCEPT ![Len(r.stack)] = f], i + 1)
            ELSE [st |-> st, stack |-> stk]

\* user code at the top level calls the runner of the first filler
Descend ==
    /\ CanCall
    /\ stack = <<>>
    /\ \A i \in 1 .. maxMarkerBits : effect[Filler(i)].active
    /\ Apply(Nest(Cur, stack, 1).st)
    /\ stack' = Nest(Cur, stack, 1).stack
    /\ lastOp' = [NoOp EXCEPT !.op = "run", !.eff = Filler(1), !.trig = "tracked",
                              !.base = Len(stack), !.at = fuel - 1]
    /\ Count
    /\ UNCHANGED <<obj, arr, exc, readSet, prevRead, lastTrig>>

\* pauseTracking(), enableTracking() or resetTracking() called by user code
DoTracking(op) ==
    /\ CanCall
    /\ Apply(CASE op = "pause" -> pauseTracking(Cur)
               [] op = "enable" -> enableTracking(Cur)
               [] op = "reset" -> resetTracking(Cur))
    /\ lastOp' = [NoOp EXCEPT !.op = op, !.eff = activeEffect, !.len = Len(trackStack),
                              !.tracked = shouldTrack,
                              !.base = Len(stack), !.at = fuel - 1]
    /\ stack' = Charge(stack)
    /\ Count
    /\ UNCHANGED <<obj, arr, exc, readSet, prevRead, lastTrig>>

\* the computation returns: the finally block of run
Return ==
    /\ ~exc
    /\ stack # <<>>
    /\ Top.kind = "run"
    /\ Apply(IF Top.tracked THEN runFinally(Cur, Top.eff, Top.lst) ELSE Cur)
    /\ stack' = Pop(stack)
    /\ UNCHANGED <<obj, arr, exc, fuel, readSet, prevRead, lastOp, lastTrig>>

\* the computation throws
DoThrow ==
    /\ ~exc
    /\ stack # <<>>
    /\ Top.kind = "run"
    /\ exc' = TRUE
    /\ UNCHANGED <<obj, arr, targetMap, dep, effect, activeEffect, shouldTrack,
                   trackStack, effectTrackDepth, trackOpBit, stack, fuel, readSet,
                   prevRead, lastOp, lastTrig>>

TrigRecord(f, aborted) ==
    [info |-> f.info, effects |-> f.effects, ran |-> f.ran, aborted |-> aborted,
     stopped |-> {e \in Effects : ~effect[e].active}]

\* the exception leaves the innermost frame; past the outermost one the caller at
\* the top level catches it
Unwind ==
    /\ exc
    /\ stack # <<>>
    /\ Apply(IF Top.kind = "run" /\ Top.tracked
             THEN runFinally(Cur, Top.eff, Top.lst) ELSE Cur)
    /\ stack' = Pop(stack)
    /\ exc' = (Len(stack) > 1)
    /\ lastTrig' = IF Top.kind = "trigger" THEN TrigRecord(Top, TRUE) ELSE lastTrig
    /\ UNCHANGED <<obj, arr, fuel, readSet, prevRead, lastOp>>

\* a triggerEffect without the test on activeEffect
triggerEffect_noskip(st, e) ==
    IF st.effect[e].scheduler THEN "scheduler" ELSE "run"

\* a triggerEffect that never looks for a scheduler
triggerEffect_noscheduler(st, e) ==
    IF e # st.activeEffect \/ st.effect[e].allowRecurse THEN "run" ELSE "skip"

\* triggerEffect(effect): "skip", "scheduler" or "run". The scheduler is the
\* caller's callback that queues a job: it makes no call into the engine.
triggerEffect(st, e) ==
    IF e # st.activeEffect \/ st.effect[e].allowRecurse
    THEN IF st.effect[e].scheduler THEN "scheduler" ELSE "run"
    ELSE "skip"

\* one iteration of the loops of triggerEffects, or their end
TriggerStep ==
    /\ ~exc
    /\ stack # <<>>
    /\ Top.kind = "trigger"
    /\ IF Top.i > Len(Top.effects)
       THEN /\ stack' = Pop(stack)
            /\ lastTrig' = TrigRecord(Top, FALSE)
            /\ UNCHANGED <<targetMap, dep, effect, activeEffect, shouldTrack,
                           trackStack, effectTrackDepth, trackOpBit, readSet, prevRead>>
       ELSE LET e == Top.effects[Top.i]
                how == triggerEffect(Cur, e)
                r == callRun(Cur, stack, e)
                f == [Top EXCEPT !.i = @ + 1,
                                 !.ran = IF how = "scheduler"
                                            \/ (how = "run" /\ r.mode # "guard")
                                         THEN Append(@, e) ELSE @]
            IN /\ IF how = "run"
                  THEN /\ Apply(r.st)
                       /\ stack' = [i \in 1 .. Len(r.stack) |->
                                       IF i = Len(stack) THEN f ELSE r.stack[i]]
                       /\ BeginRun(r.mode, e)
                  ELSE /\ stack' = [stack EXCEPT ![Len(stack)] = f]
                       /\ UNCHANGED <<targetMap, dep, effect, activeEffect, shouldTrack,
                                      trackStack, effectTrackDepth, trackOpBit, readSet,
                                      prevRead>>
               /\ UNCHANGED lastTrig
    /\ UNCHANGED <<obj, arr, exc, fuel, lastOp>>

\* a delete trap that fires DELETE whether the key was there or not
deleteTrigger_always(o, a, t, key) == "delete"

\* deleteProperty: which trigger the trap fires after the delete
deleteTrigger(o, a, t, key) ==
    IF hasOwn(o, a, t, key) /\ ~(isArray(t) /\ key = "length") THEN "delete" ELSE None

\* delete target[key] through the mutable wrapper
DoDelete(t, key) ==
    /\ CanCall
    /\ LET type == deleteTrigger(obj, arr, t, key)
           r == callTrigger(Cur, Charge(stack), t, type, key, undefined, "delete")
       IN /\ IF isArray(t) THEN arr' = arrayDelete(arr, key) /\ obj' = obj
             ELSE obj' = [obj EXCEPT ![key] = Absent] /\ arr' = arr
          /\ IF type = None
             THEN stack' = Charge(stack) /\ UNCHANGED <<exc, lastTrig>>
             ELSE stack' = r.stack /\ exc' = r.exc /\ lastTrig' = r.last
          /\ lastOp' = [NoOp EXCEPT !.op = "delete", !.slot = <<t, key>>,
                                    !.oldValue = rawGet(obj, arr, t, key),
                                    !.hadKey = hasOwn(obj, arr, t, key),
                                    !.trig = type,
                                    !.result = ~(isArray(t) /\ key = "length"),
                                    !.base = Len(stack), !.at = fuel - 1]
    /\ Count
    /\ UNCHANGED <<targetMap, dep, effect, activeEffect, shouldTrack, trackStack,
                   effectTrackDepth, trackOpBit, readSet, prevRead>>

\* ------------------------------------------- the length-altering array methods
\* Array.prototype.push, pop, shift, unshift and splice run on the wrapper: every
\* Get, HasProperty, Set and DeleteProperty they perform goes through the traps.
\* The next trap call of the method in frame f on the array a, and the frame after
\* it.  splice is the call splice(0, 1).
methodOp(a, f) ==
    LET len == f.len
        at(pc) == [f EXCEPT !.pc = pc]
        present(i) == i < a.length /\ a.el[i] # Absent
        last == IF len = 0 THEN 0 ELSE len - 1
    IN CASE f.pc = 0 ->
              [op |-> "get", key |-> "length", value |-> None,
               next |-> [f EXCEPT !.len = a.length,
                                  !.k = IF f.name = "unshift" THEN a.length ELSE 1,
                                  !.pc = CASE f.name = "push" -> 10
                                           [] f.name = "pop" ->
                                                IF a.length = 0 THEN 13 ELSE 11
                                           [] f.name = "shift" ->
                                                IF a.length = 0 THEN 13 ELSE 20
                                           [] f.name = "unshift" -> 30
                                           [] OTHER -> 40]]
         \* push(value)
         [] f.pc = 10 -> [op |-> "set", key |-> IndexKey(len), value |-> f.val,
                          next |-> at(14)]
         [] f.pc = 14 -> [op |-> "set", key |-> "length", value |-> IndexKey(len + 1),
                          next |-> at(99)]
         \* pop()
         [] f.pc = 11 -> [op |-> "get", key |-> IndexKey(last), value |-> None,
                          next |-> at(12)]
         [] f.pc = 12 -> [op |-> "delete", key |-> IndexKey(last), value |-> None,
                          next |-> at(13)]
         [] f.pc = 13 -> [op |-> "set", key |-> "length", value |-> IndexKey(last),
                          next |-> at(99)]
         \* shift(), and the tail of splice(0, 1): k is the index moved down
         [] f.pc = 20 -> [op |-> "get", key |-> "0", value |-> None, next |-> at(21)]
         [] f.pc = 21 ->
              IF f.k < len
              THEN [op |-> "has", key |-> IndexKey(f.k), value |-> None,
                    next |-> at(IF present(f.k) THEN 22 ELSE 24)]
              ELSE [op |-> "delete", key |-> IndexKey(last), value |-> None,
                    next |-> at(13)]
         [] f.pc = 22 -> [op |-> "get", key |-> IndexKey(f.k), value |-> None,
                          next |-> [f EXCEPT !.pc = 23,
                                             !.tmp = rawGet(<<>>, a, "arr", IndexKey(f.k))]]
         [] f.pc = 23 -> [op |-> "set", key |-> IndexKey(f.k - 1), value |-> f.tmp,
                          next |-> [f EXCEPT !.pc = 21, !.k = @ + 1]]
         [] f.pc = 24 -> [op |-> "delete", key |-> IndexKey(f.k - 1), value |-> None,
                          next |-> [f EXCEPT !.pc = 21, !.k = @ + 1]]
         \* unshift(value): k is the index moved up to
         [] f.pc = 30 ->
              IF f.k > 0
              THEN [op |-> "has", key |-> IndexKey(f.k - 1), value |-> None,
                    next |-> at(IF present(f.k - 1) THEN 31 ELSE 33)]
              ELSE [op |-> "set", key |-> "0", value |-> f.val, next |-> at(14)]
         [] f.pc = 31 -> [op |-> "get", key |-> IndexKey(f.k - 1), value |-> None,
                          next |-> [f EXCEPT !.pc = 32,
                                             !.tmp = rawGet(<<>>, a, "arr",
                                                            IndexKey(f.k - 1))]]
         [] f.pc = 32 -> [op |-> "set", key |-> IndexKey(f.k), value |-> f.tmp,
                          next |-> [f EXCEPT !.pc = 30, !.k = @ - 1]]
         [] f.pc = 33 -> [op |-> "delete", key |-> IndexKey(f.k), value |-> None,
                          next |-> [f EXCEPT !.pc = 30, !.k = @ - 1]]
         \* splice(0, 1): ArraySpeciesCreate reads constructor, then the deleted
         \* element is copied out
         [] f.pc = 40 -> [op |-> "get", key |-> "constructor", value |-> None,
                          next |-> at(IF len = 0 THEN 13 ELSE 41)]
         [] f.pc = 41 -> [op |-> "has", key |-> "0", value |-> None,
                          next |-> at(IF present(0) THEN 20 ELSE 21)]
         [] OTHER -> [op |-> "end", key |-> None, value |-> None, next |-> f]

\* the method runs on from frame f until a trap fires trigger or the method ends
\* with resetTracking; reads are the slots its own reads had tracked
RECURSIVE methodRun(_, _, _, _)
methodRun(a, st, f, reads) ==
    LET m == methodOp(a, f)
        s == <<"arr", m.key>>
    IN CASE m.op = "end" ->
              [arr |-> a, st |-> resetTracking(st), frame |-> f, trig |-> None,
               key |-> None, value |-> None, reads |-> reads]
         [] m.op \in {"get", "has"} ->
              methodRun(a, IF m.op = "get" THEN createGetter(st, FALSE, "arr", m.key)
                           ELSE track(st, s),
                        m.next, IF Tracks(st) THEN reads \cup {s} ELSE reads)
         [] m.op = "set" ->
              LET type == setTrigger(<<>>, a, "arr", m.key, m.value)
                  a2 == arraySet(a, m.key, m.value)
              IN IF type = None THEN methodRun(a2, st, m.next, reads)
                 ELSE [arr |-> a2, st |-> st, frame |-> m.next, trig |-> type,
                       key |-> m.key, value |-> m.value, reads |-> reads]
         [] OTHER ->
              LET type == deleteTrigger(<<>>, a, "arr", m.key)
                  a2 == arrayDelete(a, m.key)
              IN IF type = None THEN methodRun(a2, st, m.next, reads)
                 ELSE [arr |-> a2, st |-> st, frame |-> m.next, trig |-> type,
                       key |-> m.key, value |-> undefined, reads |-> reads]

\* the state after a stretch r of a method that began on the stack stk
MethodEffect(r, stk, name) ==
    LET c == callTrigger(r.st, Append(stk, r.frame), "arr", r.trig, r.key, r.value, name)
    IN /\ arr' = r.arr
       /\ Apply(r.st)
       /\ readSet' = IF r.reads # {} /\ activeEffect # None
                     THEN [readSet EXCEPT ![activeEffect] = @ \cup r.reads] ELSE readSet
       /\ IF r.trig = None
          THEN stack' = stk /\ UNCHANGED <<exc, lastTrig>>
          ELSE stack' = c.stack /\ exc' = c.exc /\ lastTrig' = c.last
       /\ UNCHANGED <<obj, prevRead>>

\* arr.push(value), arr.pop(), ... through the mutable wrapper: the instrumented method
DoMethod(name, value) ==
    /\ CanCall
    /\ name \in {"push", "unshift"} => arr.length < MaxLen
    /\ LET r == methodRun(arr, pauseTracking(Cur), MethodFrame(name, value), {})
       IN /\ MethodEffect(r, Charge(stack), name)
          /\ lastOp' = [NoOp EXCEPT !.op = "method", !.slot = <<"arr", name>>,
                                    !.eff = activeEffect, !.value = value,
                                    !.tracked = (r.reads # {}), !.trig = r.trig,
                                    !.self = shouldTrack,
                                    !.oldValue = IndexKey(arr.length),
                                    !.len = r.frame.len,
                                    !.quiet = (r.st.targetMap = targetMap
                                               /\ r.st.dep = dep /\ r.st.effect = effect),
                                    !.base = Len(stack), !.at = fuel - 1]
    /\ Count

\* the method goes on after a trigger it fired has returned
MethodStep ==
    /\ ~exc
    /\ stack # <<>>
    /\ Top.kind = "method"
    /\ LET r == methodRun(arr, Cur, Top, {})
       IN /\ MethodEffect(r, Pop(stack), Top.name)
          /\ lastOp' = [NoOp EXCEPT !.op = "method", !.slot = <<"arr", Top.name>>,
                                    !.eff = activeEffect, !.value = Top.val,
                                    !.tracked = (r.reads # {}), !.trig = r.trig,
                                    !.oldValue = IndexKey(arr.length),
                                    !.len = r.frame.len,
                                    !.quiet = (r.st.targetMap = targetMap
                                               /\ r.st.dep = dep /\ r.st.effect = effect),
                                    !.base = Len(stack) - 1, !.at = fuel]
    /\ UNCHANGED fuel

\* ------------------------------------------------- the read-only wrapper
\* readonlyHandlers.set and readonlyHandlers.deleteProperty: the warning, then true
readonlySet(o, a, t, key, value) == [obj |-> o, arr |-> a, trig |-> None, result |-> TRUE]

readonlyDelete(o, a, t, key) == [obj |-> o, arr |-> a, trig |-> None, result |-> TRUE]

\* a read of target[key] through the read-only wrapper
ROGet(t, key) ==
    /\ CanCall
    /\ Apply(createGetter(Cur, TRUE, t, key))
    /\ lastOp' = [NoOp EXCEPT !.op = "roget", !.slot = <<t, key>>, !.eff = activeEffect,
                              !.value = rawGet(obj, arr, t, key),
                              !.self = Tracks(Cur),
                              !.base = Len(stack), !.at = fuel - 1]
    /\ stack' = Charge(stack)
    /\ Count
    /\ UNCHANGED <<obj, arr, exc, readSet, prevRead, lastTrig>>

\* target[key] = value through the read-only wrapper
ROSet(t, key, value) ==
    /\ CanCall
    /\ LET r == readonlySet(obj, arr, t, key, value)
       IN /\ obj' = r.obj
          /\ arr' = r.arr
          /\ lastOp' = [NoOp EXCEPT !.op = "roset", !.slot = <<t, key>>, !.value = value,
                                    !.eff = activeEffect, !.trig = r.trig,
                                    !.result = r.result,
                                    !.base = Len(stack), !.at = fuel - 1]
    /\ stack' = Charge(stack)
    /\ Count
    /\ UNCHANGED <<targetMap, dep, effect, activeEffect, shouldTrack, trackStack,
                   effectTrackDepth, trackOpBit, exc, readSet, prevRead, lastTrig>>

\* delete target[key] through the read-only wrapper
RODelete(t, key) ==
    /\ CanCall
    /\ LET r == readonlyDelete(obj, arr, t, key)
       IN /\ obj' = r.obj
          /\ arr' = r.arr
          /\ lastOp' = [NoOp EXCEPT !.op = "rodelete", !.slot = <<t, key>>,
                                    !.eff = activeEffect, !.trig = r.trig,
                                    !.result = r.result,
                                    !.base = Len(stack), !.at = fuel - 1]
    /\ stack' = Charge(stack)
    /\ Count
    /\ UNCHANGED <<targetMap, dep, effect, activeEffect, shouldTrack, trackStack,
                   effectTrackDepth, trackOpBit, exc, readSet, prevRead, lastTrig>>

\* ------------------------------------------------------------ specification
CoreValues == {"1", "2"}

InitEngine ==
    /\ targetMap = [t \in Targets |-> <<>>]
    /\ dep = [s \in Slots |-> createDep]
    /\ activeEffect = InitRegs.activeEffect
    /\ shouldTrack = InitRegs.shouldTrack
    /\ trackStack = <<>>
    /\ effectTrackDepth = InitRegs.effectTrackDepth
    /\ trackOpBit = InitRegs.trackOpBit
    /\ stack = <<>>
    /\ exc = FALSE
    /\ readSet = [e \in Effects |-> {}]
    /\ prevRead = [e \in Effects |-> {}]
    /\ lastOp = NoOp
    /\ lastTrig = NoTrig

Init ==
    /\ InitEngine
    /\ fuel = MaxCalls
    /\ obj = [k \in ObjKeys |-> "1"]
    /\ arr = [length |-> 0, el |-> [i \in ArrIdx |-> Absent]]
    /\ effect = [e \in Effects |-> NewEffect(e = "E2", FALSE, FALSE)]

Next ==
    \/ \E e \in Effects : DoRun(e)
    \/ \E e \in Effects : DoStop(e)
    \/ \E k \in ObjKeys : DoGet("obj", k)
    \/ \E k \in ObjKeys, v \in CoreValues : DoSet("obj", k, v)
    \/ Return
    \/ DoThrow
    \/ Unwind
    \/ TriggerStep

Spec == Init /\ [][Next]_vars

\* the order of notification: no effect is stopped, and the computed effect may
\* have a scheduler, as the effect of a computed() has
InitOrd ==
    /\ InitEngine
    /\ fuel = MaxOrdCalls
    /\ obj = [k \in ObjKeys |-> "1"]
    /\ arr = [length |-> 0, el |-> [i \in ArrIdx |-> Absent]]
    /\ \E sch \in BOOLEAN :
          effect = [e \in Effects |-> NewEffect(e = "E2", e = "E2" /\ sch, FALSE)]

NextOrd ==
    \/ \E e \in Effects : DoRun(e)
    \/ \E k \in ObjKeys : DoGet("obj", k)
    \/ \E k \in ObjKeys, v \in CoreValues : DoSet("obj", k, v)
    \/ Return
    \/ DoThrow
    \/ Unwind
    \/ TriggerStep

SpecOrd == InitOrd /\ [][NextOrd]_vars

\* the dispatch of a trigger: E1 is created with or without a scheduler and with
\* or without allowRecurse, E2 is a plain effect
InitDisp ==
    /\ InitEngine
    /\ fuel = MaxDispCalls
    /\ obj = [k \in ObjKeys |-> "1"]
    /\ arr = [length |-> 0, el |-> [i \in ArrIdx |-> Absent]]
    /\ \E sch \in BOOLEAN, rec \in BOOLEAN :
          effect = [e \in Effects |-> NewEffect(FALSE, e = "E1" /\ sch, e = "E1" /\ rec)]

NextDisp ==
    \/ \E e \in Effects : DoRun(e)
    \/ \E e \in Effects : DoStop(e)
    \/ \E k \in ObjKeys : DoGet("obj", k)
    \/ \E k \in ObjKeys, v \in CoreValues : DoSet("obj", k, v)
    \/ Return
    \/ DoThrow
    \/ Unwind
    \/ TriggerStep

SpecDisp == InitDisp /\ [][NextDisp]_vars

\* the selection of trigger: the calls of track and trigger that the handlers of
\* an object, an array and a Map can make
TriggerOpTypes == {"set", "add", "delete", "clear"}

\* the keys and new values that come with an operation on a target
TriggerArgs(t, type) ==
    IF type = "clear" THEN {<<None, undefined>>}
    ELSE {<<k, "1">> : k \in KeysOf(t) \ {ITERATE_KEY, MAP_KEY_ITERATE_KEY, "length"}}
         \cup (IF isArray(t) /\ type = "set"
               THEN {<<"length", IndexKey(n)>> : n \in 0 .. MaxLen} ELSE {})

InitTab ==
    /\ InitEngine
    /\ fuel = MaxTabCalls
    /\ obj = [k \in ObjKeys |-> "1"]
    /\ arr = [length |-> MaxLen, el |-> [i \in ArrIdx |-> "1"]]
    /\ effect = [e \in Effects |-> NewEffect(FALSE, FALSE, FALSE)]

NextTab ==
    \/ \E e \in Effects : DoRun(e)
    \/ \E s \in Slots : DoTrack(s[1], s[2])
    \/ \E t \in Targets, type \in TriggerOpTypes :
          \E a \in TriggerArgs(t, type) : DoTrigger(t, type, a[1], a[2])
    \/ Return
    \/ Unwind
    \/ TriggerStep

SpecTab == InitTab /\ [][NextTab]_vars

\* tracking paused, enabled and reset by user code, at the top level and inside
\* the computations
TrackingOps == {"pause", "enable", "reset"}

InitTrk ==
    /\ InitEngine
    /\ fuel = MaxTrkCalls
    /\ obj = [k \in ObjKeys |-> "1"]
    /\ arr = [length |-> 0, el |-> [i \in ArrIdx |-> Absent]]
    /\ effect = [e \in Effects |-> NewEffect(FALSE, FALSE, FALSE)]

NextTrk ==
    \/ \E e \in Effects : DoRun(e)
    \/ \E k \in ObjKeys : DoGet("obj", k)
    \/ \E op \in TrackingOps : DoTracking(op)
    \/ Return

SpecTrk == InitTrk /\ [][NextTrk]_vars

\* runs above the depth that the masks can mark: E1 and E2, and the fillers that
\* bring the depth to maxMarkerBits
InitDeep ==
    /\ targetMap = [t \in Targets |-> <<>>]
    /\ dep = [s \in Slots |-> createDep]
    /\ activeEffect = InitRegs.activeEffect
    /\ shouldTrack = InitRegs.shouldTrack
    /\ trackStack = <<>>
    /\ effectTrackDepth = InitRegs.effectTrackDepth
    /\ trackOpBit = InitRegs.trackOpBit
    /\ stack = <<>>
    /\ exc = FALSE
    /\ readSet = [e \in Effects \cup Fillers |-> {}]
    /\ prevRead = [e \in Effects \cup Fillers |-> {}]
    /\ lastOp = NoOp
    /\ lastTrig = NoTrig
    /\ fuel = MaxDeepCalls
    /\ obj = [k \in ObjKeys |-> "1"]
    /\ arr = [length |-> 0, el |-> [i \in ArrIdx |-> Absent]]
    /\ effect = [e \in Effects \cup Fillers |-> NewEffect(FALSE, FALSE, FALSE)]

NextDeep ==
    \/ Descend
    \/ \E e \in Effects : DoRun(e)
    \/ \E e \in Effects : DoStop(e)
    \/ \E k \in ObjKeys : DoGet("obj", k)
    \/ Return
    \/ DoThrow
    \/ Unwind

SpecDeep == InitDeep /\ [][NextDeep]_vars

\* the array: reads, writes, length and the instrumented methods
ArrValues == {"1", "2"}
Methods == {"push", "pop", "shift", "unshift", "splice"}

InitArr ==
    /\ InitEngine
    /\ fuel = MaxArrCalls
    /\ obj = [k \in ObjKeys |-> "1"]
    /\ arr = [length |-> 1, el |-> [i \in ArrIdx |-> IF i = 0 THEN "1" ELSE Absent]]
    /\ effect = [e \in Effects |-> NewEffect(FALSE, FALSE, FALSE)]

NextArr ==
    \/ \E e \in Effects : DoRun(e)
    \/ \E k \in {"length", "0", "1", USER_SYMBOL} : DoGet("arr", k)
    \/ \E i \in ArrIdx, v \in ArrValues : DoSet("arr", IndexKey(i), v)
    \/ \E n \in 0 .. MaxLen : DoSet("arr", "length", IndexKey(n))
    \/ \E name \in Methods : DoMethod(name, "2")
    \/ MethodStep
    \/ Return
    \/ DoThrow
    \/ Unwind
    \/ TriggerStep

SpecArr == InitArr /\ [][NextArr]_vars

\* the values Object.is and === tell apart differently
ValValues == {"NaN", "+0", "-0"}

InitVal ==
    /\ InitEngine
    /\ fuel = MaxValCalls
    /\ obj = [k \in ObjKeys |-> IF k = "a" THEN "+0" ELSE "NaN"]
    /\ arr = [length |-> 0, el |-> [i \in ArrIdx |-> Absent]]
    /\ effect = [e \in Effects |-> NewEffect(FALSE, FALSE, FALSE)]

NextVal ==
    \/ \E e \in Effects : DoRun(e)
    \/ \E k \in ObjKeys : DoGet("obj", k)
    \/ \E k \in ObjKeys, v \in ValValues : DoSet("obj", k, v)
    \/ \E k \in ObjKeys : DoDelete("obj", k)
    \/ Return
    \/ TriggerStep

SpecVal == InitVal /\ [][NextVal]_vars

\* the read-only wrapper next to the mutable one, over the same targets
InitRO ==
    /\ InitEngine
    /\ fuel = MaxROCalls
    /\ obj = [k \in ObjKeys |-> "1"]
    /\ arr = [length |-> 1, el |-> [i \in ArrIdx |-> IF i = 0 THEN "1" ELSE Absent]]
    /\ effect = [e \in Effects |-> NewEffect(FALSE, FALSE, FALSE)]

NextRO ==
    \/ \E e \in Effects : DoRun(e)
    \/ \E k \in ObjKeys : DoGet("obj", k)
    \/ \E k \in ObjKeys : ROGet("obj", k)
    \/ \E k \in {"length", "0", USER_SYMBOL} : ROGet("arr", k)
    \/ \E k \in ObjKeys, v \in CoreValues : ROSet("obj", k, v)
    \/ \E k \in {"length", "0", "1"} : ROSet("arr", k, "0")
    \/ \E k \in ObjKeys : RODelete("obj", k)
    \/ RODelete("arr", "0")
    \/ Return

SpecRO == InitRO /\ [][NextRO]_vars

\* ------------------------------------------------------------------ claims
Occurrences(q, x) == Cardinality({i \in 1 .. Len(q) : q[i] = x})

\* C1: an effect that read slot S (tracking enabled) in its last run, that is not
\* running and has not been stopped, is re-run (or has its scheduler invoked)
\* exactly once by a trigger call that a changing write to S through the set trap
\* fires and that returns normally.
C1_ReadersRerunOnce ==
    (lastTrig.info.type = "set" /\ ~lastTrig.aborted) =>
        \A e \in (lastTrig.info.subs0 \cap lastTrig.info.idle0) \ lastTrig.stopped :
            Occurrences(lastTrig.ran, e) = 1

\* C2: an effect that is not running and whose last run did not read a slot that
\* the run before it read is not in that slot's Dep, and a later write to the slot
\* does not re-run it.
C2_StaleDependencyRemoved ==
    /\ \A e \in Effects \ Running(stack) :
          \A s \in prevRead[e] \ readSet[e] : e \notin Range(dep[s].set)
    /\ lastTrig.info.type = "set" =>
          \A e \in lastTrig.info.drop0 \cap lastTrig.info.idle0 :
              e \notin Range(lastTrig.ran)

\* the top frame of the stack after a step is the triggerEffects loop of a SET
\* trigger on slot s that the step has pushed
FiresSet(s) ==
    /\ Len(stack') = Len(stack) + 1
    /\ stack'[Len(stack')].kind = "trigger"
    /\ stack'[Len(stack')].info.type = "set"
    /\ stack'[Len(stack')].info.slot = s

\* the step calls trigger zero times and starts no computation
FiresNothing ==
    /\ Len(stack') = Len(stack)
    /\ lastTrig' = lastTrig
    /\ UNCHANGED <<targetMap, dep, effect, activeEffect>>

\* C3: a write through the mutable set trap to a key the object owns calls
\* trigger zero times and starts no computation when the value written is the
\* stored value by Object.is (NaN is NaN, +0 is not -0), and fires exactly one
\* SET trigger for the slot when it is another value.
C3_SameValueIsSilent ==
    [][\A k \in ObjKeys :
          (fuel' < fuel /\ lastOp'.op = "set" /\ lastOp'.slot = <<"obj", k>>
             /\ obj[k] # Absent) =>
              IF obj'[k] = obj[k] THEN FiresNothing ELSE FiresSet(<<"obj", k>>)]_vars

C3_Witness ==
    /\ lastOp.op = "set"
    /\ lastOp.hadKey
    /\ lastOp.value = "NaN"
    /\ lastOp.oldValue = "NaN"
    /\ lastOp.at = fuel
    /\ dep[lastOp.slot].set # <<>>
    /\ lastTrig.info.type = "set"
    /\ lastTrig.info.newValue = "-0"
    /\ lastTrig.ran # <<>>

\* C4: stop(E) while E is not the executing effect leaves E in no Dep and with an
\* empty list; stop(E) while E is the executing effect changes no Dep, and once
\* that run has returned E is inactive and in no Dep.
C4_StopRemoves ==
    /\ (lastOp.op = "stop" /\ ~lastOp.self) => lastOp.clean
    /\ (lastOp.op = "stop" /\ lastOp.self) => lastOp.quiet
    /\ \A e \in Effects \ Running(stack) :
          effect[e].deferStop => ~effect[e].active /\ Unsubscribed(Cur, e)

\* C5: an effect whose active flag is false is in no Dep and its list is empty,
\* and run on it changes neither the registers nor any subscription.
C5_StopTerminal ==
    /\ \A e \in Effects : ~effect[e].active => Unsubscribed(Cur, e)
    /\ (lastOp.op = "run" /\ lastOp.trig = "inactive") => lastOp.quiet

isComputed(e) == effect[e].computed

\* C6 as stated: while the computation of a non-computed effect of a trigger
\* call's selected set executes above that call, no computed effect of the same
\* set is still to be notified by the call or is executing.
C6_ComputedSettledBeforePlain ==
    \A j \in 1 .. Len(stack) : stack[j].kind = "trigger" =>
        \A r \in (j + 1) .. Len(stack) :
            (stack[r].kind = "run" /\ ~isComputed(stack[r].eff)
               /\ stack[r - 1].kind = "trigger"
               /\ stack[r].eff \in Range(stack[j].effects)) =>
                /\ \A k \in stack[j].i .. Len(stack[j].effects) :
                      ~isComputed(stack[j].effects[k])
                /\ \A q \in (j + 1) .. (r - 1) :
                      ~(stack[q].kind = "run" /\ isComputed(stack[q].eff)
                          /\ stack[q].eff \in Range(stack[j].effects))

\* C6 amended: a trigger call notifies every computed effect of its selected set
\* before any non-computed one, each notification returning before the next.
C6_ComputedNotifiedFirst ==
    \A j \in 1 .. Len(stack) : stack[j].kind = "trigger" =>
        /\ \A k1, k2 \in 1 .. Len(stack[j].effects) :
              (k1 < k2 /\ isComputed(stack[j].effects[k2])) =>
                  isComputed(stack[j].effects[k1])
        /\ (j < Len(stack) /\ stack[j + 1].kind = "run") =>
              stack[j + 1].eff = stack[j].effects[stack[j].i - 1]

C6_Witness ==
    /\ Len(stack) = 2
    /\ stack[1].kind = "trigger"
    /\ Len(stack[1].effects) = 2
    /\ stack[1].i = 3
    /\ isComputed(stack[1].effects[1])
    /\ stack[2].kind = "run"
    /\ stack[2].eff = stack[1].effects[2]
    /\ stack[1].ran = stack[1].effects

\* the members a trigger call found in the Dep of key k of its target
Sub(info, k) == IF k \in DOMAIN info.deps0 THEN info.deps0[k] ELSE {}

\* push wrote index L: the members of the Deps of length and of L
PushSelected(info) == Sub(info, "length") \cup Sub(info, info.slot[2])

Subscriptions(e) == {s \in Slots : e \in Range(dep[s].set)}

\* C11: when the computation of an effect throws, the exception leaves run for
\* its caller with the active effect, the tracking flag, the depth counter and
\* the mask bit as they were just before the run call and with the effect's
\* parent link cleared; and the effect, unless it has been stopped, is then in
\* the Deps of exactly the slots it read before it threw.
C11_UnwindRestores ==
    [][(exc /\ stack # <<>> /\ Top.kind = "run") =>
          /\ stack' = Pop(stack)
          /\ exc' = (stack' # <<>>)
          /\ activeEffect' = Top.pre.activeEffect
          /\ shouldTrack' = Top.pre.shouldTrack
          /\ effectTrackDepth' = Top.pre.effectTrackDepth
          /\ trackOpBit' = Top.pre.trackOpBit
          /\ effect'[Top.eff].parent = None
          /\ (Top.tracked /\ effect'[Top.eff].active) =>
                \A s \in Slots :
                    Top.eff \in Range(dep'[s].set) <=> s \in readSet[Top.eff]]_vars

\* the slots of the array that a track call recorded for e in its last two runs
ArrayReads(e) == {s \in readSet[e] \cup prevRead[e] : s[1] = "arr"}

\* C8: a length-altering method called on the array makes no track call that
\* records a read and changes no Dep, no depsMap and no effect's list, whoever
\* calls it; tracking stays paused whenever control is in the method; so an
\* effect that reads nothing of the array, whatever methods it calls, is in none
\* of the array's Deps and no trigger of the array notifies it.
C8_MethodsSubscribeNothing ==
    /\ lastOp.op = "method" => ~lastOp.tracked /\ lastOp.quiet
    /\ (stack # <<>> /\ Top.kind = "method") => ~shouldTrack
    /\ \A e \in Effects : ArrayReads(e) = {} =>
          /\ \A k \in ArrKeys : e \notin Range(dep[<<"arr", k>>].set)
          /\ \A j \in 1 .. Len(stack) :
                stack[j].kind = "trigger" => e \notin Range(stack[j].effects)

C8_Witness ==
    /\ lastOp.op = "method"
    /\ lastOp.eff # None
    /\ lastOp.self
    /\ lastOp.trig = "add"
    /\ ArrayReads(lastOp.eff) = {}
    /\ stack # <<>>
    /\ Top.kind = "trigger"
    /\ Top.effects # <<>>
    /\ Top.effects[1] # lastOp.eff

\* setting length to N: the members of the Deps of length and of the indices >= N
LengthSelected(info) ==
    UNION {info.deps0[k] : k \in {k2 \in DOMAIN info.deps0 :
                                    \/ k2 = "length"
                                    \/ isIntegerKey(k2) /\ Number(k2) >= Number(info.newValue)}}

\* C9 as stated: a write of another length N through the set trap notifies exactly
\* the effects in the Deps of length and of the tracked indices >= N, each once.
C9_LengthNotifiesFromN ==
    /\ \A j \in 1 .. Len(stack) :
          (stack[j].kind = "trigger" /\ stack[j].info.via = "set"
             /\ stack[j].info.slot = <<"arr", "length">>) =>
              /\ Range(stack[j].effects) = LengthSelected(stack[j].info)
              /\ Len(stack[j].effects) = Cardinality(Range(stack[j].effects))
    /\ (lastTrig.info.via = "set" /\ lastTrig.info.slot = <<"arr", "length">>) =>
          Range(lastTrig.effects) = LengthSelected(lastTrig.info)

\* C10: a write or delete through the read-only wrapper leaves the data as it
\* was, calls trigger zero times and returns true; a read through it makes no
\* track call; none of them changes the targetMap, a Dep or an effect.
C10_ReadonlyInert ==
    [][(fuel' < fuel /\ lastOp'.op \in {"roget", "roset", "rodelete"}) =>
          /\ obj' = obj
          /\ arr' = arr
          /\ FiresNothing
          /\ lastOp'.op # "roget" => lastOp'.result]_vars

C10_Witness ==
    /\ lastOp.op = "roset"
    /\ lastOp.slot = <<"obj", "a">>
    /\ lastOp.value # obj["a"]
    /\ lastOp.at = fuel
    /\ activeEffect # None
    /\ shouldTrack
    /\ dep[<<"obj", "a">>].set # <<>>
    /\ <<"obj", "b">> \notin readSet[activeEffect]

\* a step of the loops of triggerEffects that notifies the effect e
Notifies(e) ==
    /\ ~exc
    /\ stack # <<>>
    /\ Top.kind = "trigger"
    /\ Top.i <= Len(Top.effects)
    /\ Top.effects[Top.i] = e
    /\ stack' # stack

\* the step neither calls the scheduler of e nor executes its computation
Skipped(e) ==
    /\ stack' = [stack EXCEPT ![Len(stack)].i = @ + 1]
    /\ UNCHANGED <<targetMap, dep, effect, activeEffect, shouldTrack, trackStack,
                   effectTrackDepth, trackOpBit>>

\* the step calls the scheduler of e and does not execute its computation
Scheduled(e) ==
    /\ effect[e].scheduler
    /\ stack' = [stack EXCEPT ![Len(stack)].i = @ + 1, ![Len(stack)].ran = Append(@, e)]
    /\ UNCHANGED <<targetMap, dep, effect, activeEffect, shouldTrack, trackStack,
                   effectTrackDepth, trackOpBit>>

\* the step starts the computation of e, inside the trigger call
Rerun(e) ==
    /\ Len(stack') = Len(stack) + 1
    /\ stack'[Len(stack')].kind = "run"
    /\ stack'[Len(stack')].eff = e
    /\ stack'[Len(stack)] = [Top EXCEPT !.i = @ + 1, !.ran = Append(@, e)]
    /\ SubSeq(stack', 1, Len(stack) - 1) = SubSeq(stack, 1, Len(stack) - 1)

\* a trigger call returns to its caller
TriggerReturns ==
    /\ ~exc
    /\ stack # <<>>
    /\ Top.kind = "trigger"
    /\ stack' = Pop(stack)

\* C12 (as stated): during trigger a selected effect is skipped if and only if
\* it is the active effect and its allowRecurse is false; every other selected
\* effect has its scheduler invoked, if it has one, or else its computation
\* re-run at once, inside the trigger call.
C12_DispatchRule ==
    [][\A e \in Effects : Notifies(e) =>
          IF e = activeEffect /\ ~effect[e].allowRecurse THEN Skipped(e)
          ELSE IF effect[e].scheduler THEN Scheduled(e)
          ELSE Rerun(e)]_vars

\* C12 (amended): a trigger call notifies the effects it selected one by one, in
\* the order of its list, and returns only after the last one unless a
\* computation it re-ran throws. A selected effect is skipped if it is the
\* active effect and its allowRecurse is false; otherwise its scheduler is
\* invoked if it has one; otherwise run is called on it, which executes the
\* computation at once inside the trigger call, except that for an effect
\* that is active and on the parent chain of the active effect run returns
\* without executing anything.
C12_DispatchWithGuard ==
    [][/\ \A e \in Effects : Notifies(e) =>
             IF e = activeEffect /\ ~effect[e].allowRecurse THEN Skipped(e)
             ELSE IF effect[e].scheduler THEN Scheduled(e)
             ELSE IF effect[e].active /\ InParentChain(effect, activeEffect, e)
                  THEN Skipped(e)
             ELSE Rerun(e)
       /\ TriggerReturns => Top.i = Len(Top.effects) + 1]_vars

\* a trigger issued by a nested effect has gone through its list and has let
\* alone the effect it selected, which is active, has no scheduler and is
\* executing beneath the nested one
C12_Witness ==
    /\ Len(stack) = 3
    /\ stack[1].kind = "run"
    /\ stack[2].kind = "run"
    /\ stack[3].kind = "trigger"
    /\ stack[3].i = Len(stack[3].effects) + 1
    /\ stack[1].eff \in Range(stack[3].effects) \ Range(stack[3].ran)
    /\ effect[stack[1].eff].active
    /\ ~effect[stack[1].eff].scheduler
    /\ stack[1].eff # activeEffect

\* C13 (as stated): a trigger that selects an effect with a scheduler invokes
\* the scheduler exactly once and does not execute the computation, and the
\* notification changes no subscription.
C13_SchedulerOnce ==
    [][/\ \A e \in Effects : (Notifies(e) /\ effect[e].scheduler) =>
             /\ Occurrences(Top.effects, e) = 1
             /\ Scheduled(e)
       /\ TriggerReturns =>
             \A e \in Range(Top.effects) :
                 effect[e].scheduler => Occurrences(Top.ran, e) = 1]_vars

\* C13 (amended): a trigger that selects an effect with a scheduler has it in
\* its list once. When its turn comes the scheduler is invoked, unless the
\* effect is the active effect and its allowRecurse is false: then it is
\* skipped. Either way the notification executes no computation and changes no
\* Dep, no effect and no register; and a trigger call that returns has invoked
\* the scheduler exactly once, or not at all in the skipped case.
C13_SchedulerUnlessActive ==
    [][/\ \A e \in Effects : (Notifies(e) /\ effect[e].scheduler) =>
             /\ Occurrences(Top.effects, e) = 1
             /\ IF e = activeEffect /\ ~effect[e].allowRecurse THEN Skipped(e)
                ELSE Scheduled(e)
       /\ TriggerReturns =>
             \A e \in Range(Top.effects) :
                 effect[e].scheduler =>
                     Occurrences(Top.ran, e) =
                         (IF e = activeEffect /\ ~effect[e].allowRecurse THEN 0 ELSE 1)]_vars

\* a write at the top level has fired a trigger that selected an effect with a
\* scheduler; the trigger has returned, the scheduler was invoked and the effect
\* is still subscribed to the slot
C13_Witness ==
    /\ lastOp.op = "set"
    /\ stack = <<>>
    /\ lastTrig.info.slot = lastOp.slot
    /\ ~lastTrig.aborted
    /\ \E e \in Range(lastTrig.ran) :
          /\ effect[e].scheduler
          /\ e \in Range(dep[lastOp.slot].set)

\* user code calls run on e
CallsRun(e) ==
    /\ lastOp' # lastOp
    /\ lastOp'.op = "run"
    /\ lastOp'.eff = e

\* e is active and is the active effect or one of its ancestors
Guarded(e) == effect[e].active /\ InParentChain(effect, activeEffect, e)

\* the call of run on e returns at once: no computation starts and the
\* registers, the effects and the Deps are as they were
RunReturnsAtOnce(e) ==
    /\ Len(stack') = Len(stack)
    /\ UNCHANGED <<targetMap, dep, effect, activeEffect, shouldTrack, trackStack,
                   effectTrackDepth, trackOpBit>>

\* the frames of the stack where a computation is executing
RunFrames(stk) == {i \in 1 .. Len(stk) : stk[i].kind = "run"}

\* C20 (as stated): run(E) called while the active E is the active effect or
\* one of its ancestors returns without executing E's computation and leaves the
\* active effect, the depth, the mask bit, the tracking flag, E's parent link
\* and every Dep as they were; and no effect's computation is ever executing
\* twice at the same time.
C20_NeverExecutingTwice ==
    [][/\ \A e \in Effects : (Guarded(e) /\ CallsRun(e)) => RunReturnsAtOnce(e)
       /\ \A e \in Effects :
             (Guarded(e) /\ Notifies(e) /\ triggerEffect(Cur, e) = "run") => Skipped(e)
       /\ \A i, j \in RunFrames(stack') : stack'[i].eff = stack'[j].eff => i = j]_vars

\* C20 (amended): run(E) called, by user code or by a trigger, while the active
\* E is the active effect or one of its ancestors returns without executing E's
\* computation and leaves the registers, the effects and the Deps as they were;
\* and no effect has two tracked executions of its computation going on at the
\* same time.
C20_NeverTrackedTwice ==
    [][/\ \A e \in Effects : (Guarded(e) /\ CallsRun(e)) => RunReturnsAtOnce(e)
       /\ \A e \in Effects :
             (Guarded(e) /\ Notifies(e) /\ triggerEffect(Cur, e) = "run") => Skipped(e)
       /\ \A i, j \in RunFrames(stack') :
             (stack'[i].tracked /\ stack'[j].tracked /\ stack'[i].eff = stack'[j].eff)
                 => i = j]_vars

\* the computation of a nested effect has called run on its active ancestor,
\* which has allowRecurse, and the call has returned at once
C20_Witness ==
    /\ lastOp.op = "run"
    /\ lastOp.trig = "guard"
    /\ lastOp.quiet
    /\ lastOp.at = fuel
    /\ Len(stack) = 2
    /\ stack[1].eff = lastOp.eff
    /\ stack[2].eff # lastOp.eff
    /\ stack[1].tracked
    /\ effect[lastOp.eff].active
    /\ effect[lastOp.eff].allowRecurse

\* the effects with a tracked execution of their computation in progress
MidRun == {stack[i].eff : i \in {j \in RunFrames(stack) : stack[j].tracked}}

\* the slots that the last completed run of e read, and those that e has read so
\* far if it is mid-run
ReadSlots(e) == IF e \in MidRun THEN prevRead[e] \cup readSet[e] ELSE readSet[e]

\* C15: in every reachable state an effect that has not been stopped is a
\* member of the Dep of a slot if and only if its last completed run read the
\* slot, or it is mid-run and has read the slot so far.
C15_MembershipInvariant ==
    \A e \in Effects :
        (effect[e].active /\ ~effect[e].deferStop) => Subscriptions(e) = ReadSlots(e)

\* C16: in every reachable state the map of a target has an entry for a key if
\* and only if the Dep of that slot has a member: a slot whose Dep became empty
\* through the removal of stale dependencies or through stop has no entry.
C16_NoEmptyDepInMap ==
    \A s \in Slots : s[2] \in Range(targetMap[s[1]]) <=> dep[s].set # <<>>

\* the keys whose Deps the table chooses for an operation
TableKeys(t, type, key, newValue) ==
    IF type = "clear" THEN KeysOf(t)
    ELSE IF key = "length" /\ isArray(t)
    THEN {"length"} \cup {IndexKey(i) : i \in Number(newValue) .. MaxLen}
    ELSE {key}
         \cup (IF type \in {"add", "delete"} /\ ~isArray(t) THEN {ITERATE_KEY} ELSE {})
         \cup (IF type \in {"add", "delete"} /\ isMap(t) THEN {MAP_KEY_ITERATE_KEY} ELSE {})
         \cup (IF type = "add" /\ isArray(t) /\ isIntegerKey(key) THEN {"length"} ELSE {})
         \cup (IF type = "set" /\ isMap(t) THEN {ITERATE_KEY} ELSE {})

\* the union of the Deps of those keys, as they were when trigger was called
TableSelected(info) ==
    UNION {info.deps0[k] : k \in TableKeys(info.slot[1], info.type, info.slot[2],
                                           info.newValue) \cap DOMAIN info.deps0}

\* C14: for every call of trigger the effects it sets out to notify are exactly
\* the members of the Deps that the table chooses: all of the target's for
\* CLEAR; the length Dep and the Deps of the indices from the new length on for
\* the key length of an array; otherwise the key's own Dep, with the iteration
\* sentinel's for ADD and DELETE on a non-array (and the Map key sentinel's on a
\* Map), the length Dep for ADD of an integer key on an array, and the
\* iteration sentinel's for SET on a Map.
C14_SelectionTable ==
    /\ lastTrig.info # NoInfo => Range(lastTrig.effects) = TableSelected(lastTrig.info)
    /\ \A i \in 1 .. Len(stack) :
          stack[i].kind = "trigger" => Range(stack[i].effects) = TableSelected(stack[i].info)

\* the engine after the calls of w, one after the other
RECURSIVE TrackingSeq(_, _)
TrackingSeq(st, w) ==
    IF w = <<>> THEN st
    ELSE LET next == CASE w[1] = "pause" -> pauseTracking(st)
                       [] w[1] = "enable" -> enableTracking(st)
                       [] w[1] = "reset" -> resetTracking(st)
         IN IF next.shouldTrack \in BOOLEAN THEN TrackingSeq(next, Tail(w)) ELSE st

\* the sequences of at most n pauseTracking or enableTracking calls, each
\* matched by a later resetTracking
RECURSIVE NestedCalls(_)
NestedCalls(n) ==
    IF n = 0 THEN {<<>>}
    ELSE {<<>>} \cup
         UNION {{<<op>> \o u \o <<"reset">> \o v :
                     v \in {x \in NestedCalls(n - 1) : Len(x) + Len(u) + 2 <= 2 * n}} :
                 op \in {"pause", "enable"}, u \in NestedCalls(n - 1)}

Nested == NestedCalls(MaxNest)

\* those that fit between a call and the resetTracking that matches it
Inner == NestedCalls(MaxNest - 1)

\* C17: from any reachable state, after a properly nested sequence of
\* pauseTracking and enableTracking calls each matched by a resetTracking,
\* shouldTrack and trackStack are what they were before it; a resetTracking
\* restores the flag that the matching call saved; and resetTracking on an
\* empty stack sets shouldTrack to true.
C17_TrackingIsAStack ==
    /\ \A w \in Nested :
          LET after == TrackingSeq(Cur, w)
          IN /\ after.shouldTrack = shouldTrack
             /\ after.trackStack = trackStack
             /\ after = Cur
    /\ \A w \in Inner, op \in {"pause", "enable"} :
          LET saved == TrackingSeq(Cur, <<op>> \o w)
          IN /\ saved.trackStack = Append(trackStack, shouldTrack)
             /\ resetTracking(saved).shouldTrack = shouldTrack
    /\ trackStack = <<>> =>
          /\ resetTracking(Cur).shouldTrack = TRUE
          /\ resetTracking(Cur).trackStack = <<>>
    /\ lastOp.op = "reset" =>
          /\ Len(trackStack) = IF lastOp.len = 0 THEN 0 ELSE lastOp.len - 1
          /\ lastOp.len = 0 /\ lastOp.at = fuel /\ Len(stack) = lastOp.base
                => shouldTrack

\* a resetTracking has just turned shouldTrack from true back to the false that
\* the matching call had saved, and an earlier call is still to be matched
C17_Witness ==
    /\ lastOp.op = "reset"
    /\ lastOp.at = fuel
    /\ lastOp.tracked
    /\ ~shouldTrack
    /\ trackStack # <<>>

\* a read through the wrapper
Reads ==
    /\ lastOp' # lastOp
    /\ lastOp'.op = "get"

\* C18: track is a no-op when shouldTrack is false or no effect is active: it
\* creates no map entry and no Dep, and leaves every Dep, every mask and every
\* effect's list as they were.
C18_TrackNoOp ==
    [][(Reads /\ ~(shouldTrack /\ activeEffect # None)) =>
          UNCHANGED <<targetMap, dep, effect, activeEffect, shouldTrack, trackStack,
                      effectTrackDepth, trackOpBit>>]_vars

\* the computation of an effect has read a slot while tracking was paused, and
\* the slot has no Dep
C18_Witness ==
    /\ lastOp.op = "get"
    /\ lastOp.at = fuel
    /\ lastOp.eff # None
    /\ ~lastOp.tracked
    /\ ~shouldTrack
    /\ activeEffect = lastOp.eff
    /\ lastOp.slot[2] \notin Range(targetMap[lastOp.slot[1]])

\* the reads of a computation: at most MaxBody slots of the object, in order
ReadSeqs == UNION {[1 .. n -> {<<"obj", k>> : k \in ObjKeys}] : n \in 0 .. MaxBody}

RECURSIVE trackAll(_, _)
trackAll(st, reads) ==
    IF reads = <<>> THEN st ELSE trackAll(track(st, reads[1]), Tail(reads))

\* a completed run of e whose computation reads the slots of reads
WholeRun(st, e, reads) ==
    runFinally(trackAll(runEnter(st, e), reads), e, st.shouldTrack)

\* the same state with the fillers running, at depth maxMarkerBits
Deep(st) == Nest(st, <<>>, 1).st

\* C19: from any state in which no effect is running, a completed run of an
\* active effect made above depth maxMarkerBits leaves the same members in every
\* Dep and the same slots in the effect's own list as a run of the same
\* computation made in bit mode, namely the slots tracked during the run, and it
\* changes no w and no n.
C19_StrategiesEquivalent ==
    stack = <<>> =>
        LET deep0 == Deep(Cur)
        IN \A e \in Effects, reads \in ReadSeqs :
               effect[e].active =>
                   LET bit == WholeRun(Cur, e, reads)
                       deep == WholeRun(deep0, e, reads)
                   IN /\ \A s \in Slots : Range(deep.dep[s].set) = Range(bit.dep[s].set)
                      /\ Range(deep.effect[e].deps) = Range(bit.effect[e].deps)
                      /\ {s \in Slots : e \in Range(deep.dep[s].set)} = Range(reads)
                      /\ \A s \in Slots : /\ deep.dep[s].w = deep0.dep[s].w
                                           /\ deep.dep[s].n = deep0.dep[s].n

\* C30: whenever no effect is running, the depth being 0, every Dep has w = 0
\* and n = 0; and while effects are running a Dep has no bit set above the bit of
\* the current depth.
C30_MarkersClearAtRest ==
    /\ effectTrackDepth = 0 => \A s \in Slots : dep[s].w = 0 /\ dep[s].n = 0
    /\ (effectTrackDepth > 0 /\ effectTrackDepth <= maxMarkerBits) =>
          \A s \in Slots : /\ dep[s].w < 2 * Shl1(effectTrackDepth)
                            /\ dep[s].n < 2 * Shl1(effectTrackDepth)

\* control leaves a length-altering method, by its return or by the exception of
\* an effect that a trigger of the method had run
MethodEnds ==
    /\ stack # <<>>
    /\ Top.kind = "method"
    /\ Len(stack') < Len(stack)
    /\ exc => lastTrig.aborted /\ lastTrig.ran # <<>>

\* a length-altering method is called and returns without having fired a trigger
MethodReturnsAtOnce ==
    /\ lastOp' # lastOp
    /\ lastOp'.op = "method"
    /\ lastOp'.at = fuel - 1
    /\ Len(stack') = Len(stack)
    /\ ~exc'

\* C29: a call of push, pop, shift, unshift or splice leaves shouldTrack and
\* trackStack as they were before the call, when it returns and when it ends
\* with an exception thrown by an effect that it triggered; and the effects that
\* it triggers run with tracking enabled.
C29_MethodsRestoreTracking ==
    [][/\ MethodEnds =>
             /\ trackStack # <<>>
             /\ trackStack' = SubSeq(trackStack, 1, Len(trackStack) - 1)
             /\ shouldTrack' = trackStack[Len(trackStack)]
       /\ MethodReturnsAtOnce => UNCHANGED <<shouldTrack, trackStack>>
       /\ \A e \in Effects :
             (Notifies(e) /\ Len(stack) >= 2 /\ stack[Len(stack) - 1].kind = "method"
                 /\ Len(stack') > Len(stack)) => shouldTrack']_vars

\* C28: a trigger call neither executes the computation nor invokes the
\* scheduler of an effect whose active flag is false; checked for the effects
\* that stop has taken out of every Dep, which a trigger can still hold in the
\* list it built before the stop.
C28_StoppedNeverNotified ==
    [][\A e \in Effects :
          (Notifies(e) /\ ~effect[e].active /\ Unsubscribed(Cur, e)) => Skipped(e)]_vars

\* ------------------------------------------- the traps of the mutable handlers
\* ownKeys: the key the trap tracks before it returns the keys of the target
ownKeysKey(t) == IF isArray(t) THEN "length" ELSE ITERATE_KEY

\* Reflect.ownKeys(target) through the mutable wrapper
DoOwnKeys(t) ==
    /\ CanCall
    /\ Apply(track(Cur, <<t, ownKeysKey(t)>>))
    /\ readSet' = IF Tracks(Cur)
                  THEN [readSet EXCEPT ![activeEffect] = @ \cup {<<t, ownKeysKey(t)>>}]
                  ELSE readSet
    /\ lastOp' = [NoOp EXCEPT !.op = "ownKeys", !.slot = <<t, ownKeysKey(t)>>,
                              !.eff = activeEffect, !.tracked = Tracks(Cur),
                              !.base = Len(stack), !.at = fuel - 1]
    /\ stack' = Charge(stack)
    /\ Count
    /\ UNCHANGED <<obj, arr, exc, prevRead, lastTrig>>

\* a value, and the value a read of an absent key returns
TrapValues == {"1", undefined}

\* an object with one key present and one absent, an array of one element
InitTrap ==
    /\ InitEngine
    /\ fuel = MaxTrapCalls
    /\ obj = [k \in ObjKeys |-> IF k = "a" THEN "1" ELSE Absent]
    /\ arr = [length |-> 1, el |-> [i \in ArrIdx |-> IF i = 0 THEN "1" ELSE Absent]]
    /\ effect = [e \in Effects |-> NewEffect(FALSE, FALSE, FALSE)]

NextTrap ==
    \/ \E e \in Effects : DoRun(e)
    \/ \E k \in ObjKeys : DoGet("obj", k)
    \/ \E k \in {"0", USER_SYMBOL} : DoGet("arr", k)
    \/ \E t \in {"obj", "arr"} : DoOwnKeys(t)
    \/ \E k \in ObjKeys, v \in TrapValues : DoSet("obj", k, v)
    \/ \E i \in ArrIdx, v \in TrapValues : DoSet("arr", IndexKey(i), v)
    \/ \E n \in 0 .. MaxLen : DoSet("arr", "length", IndexKey(n))
    \/ \E k \in ObjKeys : DoDelete("obj", k)
    \/ DoDelete("arr", "0")
    \/ Return
    \/ Unwind
    \/ TriggerStep

SpecTrap == InitTrap /\ [][NextTrap]_vars

\* the step is a call of the trap named op
TrapCall(op) == lastOp' # lastOp /\ lastOp'.op = op

\* the call of the step has called trigger once, with this type, for the slot
\* of the call: nothing of its loop has run yet, or it has thrown while it
\* selected the deps
FiresOnce(type) ==
    \/ /\ Len(stack') = Len(stack) + 1
       /\ SubSeq(stack', 1, Len(stack)) = Charge(stack)
       /\ ~exc'
       /\ LET f == stack'[Len(stack')]
          IN /\ f.kind = "trigger"
             /\ f.i = 1
             /\ f.ran = <<>>
             /\ f.info.type = type
             /\ f.info.slot = lastOp'.slot
    \/ /\ stack' = Charge(stack)
       /\ exc'
       /\ lastTrig'.aborted
       /\ lastTrig'.ran = <<>>
       /\ lastTrig'.info.type = type
       /\ lastTrig'.info.slot = lastOp'.slot

\* the call of the step has called no trigger
FiresNone == stack' = Charge(stack) /\ lastTrig' = lastTrig

\* the key the set trap is called with is absent from the target
KeyAbsent(t, key) ==
    IF isArray(t)
    THEN IF isIntegerKey(key) THEN Number(key) >= arr.length ELSE key # "length"
    ELSE obj[key] = Absent

\* C22: a write through the set trap of the mutable wrapper performs the write
\* and then fires exactly one of: trigger ADD when the key was absent (array and
\* integer key: index >= length; otherwise not an own property), trigger SET
\* when the key was present and the value changed, nothing when the key was
\* present and the value is the same. ADD fires also for the value a read of
\* the absent key returned, and the trigger starts with the new value written.
C22_WriteClassification ==
    [][TrapCall("set") =>
          LET t == lastOp'.slot[1]
              key == lastOp'.slot[2]
              value == lastOp'.value
          IN /\ rawGet(obj', arr', t, key) = value
             /\ IF KeyAbsent(t, key) THEN FiresOnce("add")
                ELSE IF value # rawGet(obj, arr, t, key) THEN FiresOnce("set")
                ELSE FiresNone]_vars

\* undefined has been written to an absent key, a read of which returned
\* undefined, and the ADD trigger of the write is about to notify a subscriber
C22_Witness ==
    /\ lastOp.op = "set"
    /\ lastOp.value = undefined
    /\ lastOp.oldValue = undefined
    /\ lastOp.trig = "add"
    /\ stack # <<>>
    /\ Top.kind = "trigger"
    /\ Top.info.via = "set"
    /\ Top.i = 1
    /\ Top.effects # <<>>


\* C23: a delete through the mutable wrapper removes the key and fires exactly
\* one DELETE trigger if the key was an own property and the delete succeeded,
\* and no trigger otherwise; on a target that is not an array the effects the
\* DELETE is to notify are the subscribers of the key and those of ITERATE_KEY.
C23_DeleteTrap ==
    [][TrapCall("delete") =>
          LET t == lastOp'.slot[1]
              key == lastOp'.slot[2]
          IN /\ ~hasOwn(obj', arr', t, key)
             /\ IF hasOwn(obj, arr, t, key) /\ lastOp'.result
                THEN /\ FiresOnce("delete")
                     /\ ~isArray(t) =>
                           Range(stack'[Len(stack')].effects)
                              = Range(dep[<<t, key>>].set)
                                   \cup Range(dep[<<t, ITERATE_KEY>>].set)
                ELSE FiresNone]_vars

\* an own key of the object has been deleted and the DELETE is about to notify
\* an effect that read the key and enumerated the keys
C23_Witness ==
    /\ lastOp.op = "delete"
    /\ lastOp.hadKey
    /\ lastOp.slot[1] = "obj"
    /\ stack # <<>>
    /\ Top.kind = "trigger"
    /\ Top.info.via = "delete"
    /\ Top.i = 1
    /\ \E e \in Range(Top.effects) :
          /\ e \in Range(dep[lastOp.slot].set)
          /\ e \in Range(dep[<<"obj", ITERATE_KEY>>].set)


\* the same traps, with the calls it takes for one effect to read a key and
\* another to enumerate the keys before the write
InitEnum ==
    /\ InitEngine
    /\ fuel = MaxEnumCalls
    /\ obj = [k \in ObjKeys |-> IF k = "a" THEN "1" ELSE Absent]
    /\ arr = [length |-> 1, el |-> [i \in ArrIdx |-> IF i = 0 THEN "1" ELSE Absent]]
    /\ effect = [e \in Effects |-> NewEffect(FALSE, FALSE, FALSE)]

SpecEnum == InitEnum /\ [][NextTrap]_vars

\* e is active and idle, and all its last run did was enumerate the keys of t
OnlyEnumerates(e, t) ==
    /\ effect[e].active
    /\ e \notin Running(stack)
    /\ readSet[e] = {<<t, ownKeysKey(t)>>}

\* the trap call of the step has called trigger, which is to notify e
Listed(e) ==
    /\ ~exc'
    /\ Len(stack') = Len(stack) + 1
    /\ stack'[Len(stack')].kind = "trigger"
    /\ e \in Range(stack'[Len(stack')].effects)

\* C24: an effect that only enumerates the keys of an object is re-run when a
\* key is added or an own key is deleted and not when an own key is
\* overwritten; an effect that only enumerates the keys of an array is
\* subscribed to length, and is re-run when an index >= length is written or
\* length is changed and not when an index < length is overwritten.
C24_EnumerationDependency ==
    [][\A e \in Effects, t \in {"obj", "arr"} :
          OnlyEnumerates(e, t) =>
             LET key == lastOp'.slot[2]
                 changed == lastOp'.value # rawGet(obj, arr, t, key)
             IN /\ isArray(t) => e \in Range(dep[<<t, "length">>].set)
                /\ (TrapCall("set") /\ lastOp'.slot[1] = t) =>
                      (Listed(e) <=> \/ KeyAbsent(t, key)
                                     \/ isArray(t) /\ key = "length" /\ changed)
                /\ (TrapCall("delete") /\ lastOp'.slot[1] = t /\ ~isArray(t)) =>
                      (Listed(e) <=> hasOwn(obj, arr, t, key))
                /\ Notifies(e) => Rerun(e)]_vars


\* C25: for every effect and every Dep, the Dep is in the effect's own list if
\* and only if the effect is a member of the Dep, and no Dep is in the list
\* twice; in every state between two steps, where no finalizeDepMarkers and no
\* cleanupEffect is under way.
C25_MirrorInvariant ==
    \A e \in DOMAIN effect :
       /\ \A s \in Slots : s \in Range(effect[e].deps) <=> e \in Range(dep[s].set)
       /\ \A i, j \in 1 .. Len(effect[e].deps) :
             effect[e].deps[i] = effect[e].deps[j] => i = j


\* past maxMarkerBits an effect has subscribed to two Deps by the cleanup
\* strategy, while another effect is stopped
C25_Witness ==
    /\ effectTrackDepth > maxMarkerBits
    /\ activeEffect \in Effects
    /\ Len(effect[activeEffect].deps) = 2
    /\ \E e \in Effects : ~effect[e].active


\* ----------------------------------------------------------- the run stack
\* the parent chain that starts at p, cut after n effects
RECURSIVE ParentChain(_, _, _)
ParentChain(eff, p, n) ==
    IF p = None \/ n = 0 THEN <<>>
    ELSE <<p>> \o ParentChain(eff, eff[p].parent, n - 1)

\* the chain from activeEffect: one effect more than exist if it has a cycle
ActiveChain == ParentChain(effect, activeEffect, Cardinality(DOMAIN effect) + 1)

\* the effects whose run is between its try and its finally, innermost first
MidRunSeq ==
    LET fs == SelectSeq(stack, LAMBDA f : f.kind = "run" /\ f.tracked)
    IN [i \in 1 .. Len(fs) |-> fs[Len(fs) + 1 - i].eff]

\* the registers and the parent links agree with the runs under way
C26_ChainShape ==
    /\ Len(ActiveChain) <= Cardinality(DOMAIN effect)
    /\ \A i, j \in 1 .. Len(ActiveChain) : ActiveChain[i] = ActiveChain[j] => i = j
    /\ ActiveChain = MidRunSeq
    /\ Len(ActiveChain) = effectTrackDepth
    /\ trackOpBit = Shl1(effectTrackDepth)
    /\ \A e \in DOMAIN effect : e \notin Range(ActiveChain) => effect[e].parent = None
    /\ MidRunSeq = <<>> => activeEffect = None /\ effectTrackDepth = 0

\* C26: in every state the parent chain from activeEffect is finite, holds no
\* effect twice, holds only effects that are mid-run and either active or with
\* a deferred stop, and is as long as effectTrackDepth; trackOpBit is
\* 1 << effectTrackDepth; an effect off the chain has no parent; when no effect
\* is running activeEffect is undefined and effectTrackDepth is 0.
C26_RunStackInvariant ==
    /\ C26_ChainShape
    /\ \A e \in Range(ActiveChain) : effect[e].active \/ effect[e].deferStop


\* the step is a read that track does not ignore
TrackedRead == lastOp' # lastOp /\ lastOp'.op = "get" /\ lastOp'.tracked

\* the step enters the computation of an effect through the try block of run
RunBegins ==
    /\ Len(stack') = Len(stack) + 1
    /\ stack'[Len(stack')].kind = "run"
    /\ stack'[Len(stack')].tracked

\* the step leaves such a computation, by return or by exception
RunEnds ==
    /\ stack # <<>>
    /\ Top.kind = "run"
    /\ Top.tracked
    /\ Len(stack') = Len(stack) - 1

\* C21: a tracked read subscribes the effect whose run is innermost at the time
\* of the read, and no other; when a nested run returns, activeEffect is the
\* enclosing effect again; a run starts with shouldTrack true whatever the
\* enclosing code had set, and restores the enclosing shouldTrack on exit.
C21_NestedAttribution ==
    [][/\ TrackedRead =>
             /\ MidRunSeq # <<>>
             /\ activeEffect = MidRunSeq[1]
             /\ activeEffect \in Range(dep'[lastOp'.slot].set)
             /\ \A e \in DOMAIN effect \ {activeEffect}, s \in Slots :
                   e \in Range(dep'[s].set) <=> e \in Range(dep[s].set)
       /\ RunBegins => /\ shouldTrack'
                       /\ activeEffect' = stack'[Len(stack')].eff
       /\ RunEnds => /\ activeEffect' = Top.pre.activeEffect
                     /\ shouldTrack' = Top.pre.shouldTrack
                     /\ MidRunSeq' = SubSeq(MidRunSeq, 2, Len(MidRunSeq))
                     /\ MidRunSeq' # <<>> => activeEffect' = MidRunSeq'[1]]_vars


\* the computations that a trigger has started and that have not returned
TriggeredRuns == {i \in RunFrames(stack) : i > 1 /\ stack[i - 1].kind = "trigger"}

\* C27: the runs that triggers have started one inside the other are never more
\* than there are effects, and neither is effectTrackDepth: no write re-enters
\* a computation that is executing, which is what makes every top-level write,
\* delete or run of effects without scheduler, whose computations make
\* finitely many calls each, come back.
C27_NestingBounded ==
    /\ Cardinality(TriggeredRuns) <= Cardinality(Effects)
    /\ effectTrackDepth <= Cardinality(Effects)

====
